---- MODULE Spec2Model ----
(***************************************************************************)
(* Model of pattern#1/dataflow_ingestion_configurable.py: the CSV coder,   *)
(* the field normalizer (PrepareFieldTypes), the timestamp injector, the   *)
(* BigQuery schema projection and the per-file loop of run().              *)
(*                                                                         *)
(* Python text is modelled as a sequence of one-character strings, so that *)
(* int(), float(), time.strptime() and the csv writer are computed on the  *)
(* characters.  Python values are tagged records:                          *)
(*   [tag |-> "str", s |-> chars]   [tag |-> "None"]                       *)
(*   [tag |-> "int", n |-> i]       [tag |-> "float", m |-> i, e |-> k]    *)
(* where a float stands for m / 10^e.  A dict is a sequence of <<key,      *)
(* value>> pairs in insertion order.                                       *)
(***************************************************************************)
EXTENDS Integers, Sequences, FiniteSets, TLC

\* ------------------------------------------------------------------------
\* Bounds
\* ------------------------------------------------------------------------
MaxFields == 2

\* ------------------------------------------------------------------------
\* Python values
\* ------------------------------------------------------------------------
PyNone == [tag |-> "None"]

PyStr(s) == [tag |-> "str", s |-> s]

PyInt(n) == [tag |-> "int", n |-> n]

RECURSIVE PyFloat(_, _)
PyFloat(m, e) ==
    IF e > 0 /\ m % 10 = 0 THEN PyFloat(m \div 10, e - 1)
    ELSE [tag |-> "float", m |-> m, e |-> e]

\* bool(v): the truth value Python gives v in "if not v".
Truthy(v) ==
    CASE v.tag = "None"  -> FALSE
      [] v.tag = "str"   -> Len(v.s) > 0
      [] v.tag = "int"   -> v.n # 0
      [] v.tag = "float" -> v.m # 0

Digits == <<"0", "1", "2", "3", "4", "5", "6", "7", "8", "9">>

IsDigit(c) == \E i \in 1..10 : Digits[i] = c

DigitVal(c) == (CHOOSE i \in 1..10 : Digits[i] = c) - 1

IsSpace(c) == c \in {" ", "\t", "\n", "\r"}

\* s[i] when i is inside s, and the pseudo character "" past its end.
At(s, i) == IF i >= 1 /\ i <= Len(s) THEN s[i] ELSE ""

\* A result of a call: either a value or a raised exception.
Ok(v) == [exc |-> "none", v |-> v]

Raise(e) == [exc |-> e]

\* ------------------------------------------------------------------------
\* int(v) and float(v) on text
\* ------------------------------------------------------------------------
RECURSIVE LStrip(_)
LStrip(s) == IF Len(s) > 0 /\ IsSpace(s[1]) THEN LStrip(Tail(s)) ELSE s

RECURSIVE RStrip(_)
RStrip(s) ==
    IF Len(s) > 0 /\ IsSpace(s[Len(s)]) THEN RStrip(SubSeq(s, 1, Len(s) - 1))
    ELSE s

RECURSIVE DigitsValue(_, _)
DigitsValue(s, acc) ==
    IF Len(s) = 0 THEN acc ELSE DigitsValue(Tail(s), acc * 10 + DigitVal(s[1]))

AllDigits(s) == Len(s) > 0 /\ \A i \in 1..Len(s) : IsDigit(s[i])

\* int(v) for a raw value (text or None).  Text is a decimal literal:
\* optional surrounding whitespace, an optional sign, one or more digits.
py_int(v) ==
    IF v.tag # "str" THEN Raise("TypeError")
    ELSE LET t == RStrip(LStrip(v.s))
             signed == Len(t) > 0 /\ t[1] \in {"+", "-"}
             body == IF signed THEN Tail(t) ELSE t
             sgn == IF signed /\ t[1] = "-" THEN -1 ELSE 1
         IN  IF AllDigits(body) THEN Ok(PyInt(sgn * DigitsValue(body, 0)))
             ELSE Raise("ValueError")

\* Position of the first "." of s, or 0.
DotAt(s) ==
    IF \E i \in 1..Len(s) : s[i] = "."
    THEN CHOOSE i \in 1..Len(s) : s[i] = "." /\ \A j \in 1..(i - 1) : s[j] # "."
    ELSE 0

\* float(v) for a raw value (text or None).  Text is a decimal literal:
\* optional surrounding whitespace, an optional sign, digits with at most
\* one "." and at least one digit.
py_float(v) ==
    IF v.tag # "str" THEN Raise("TypeError")
    ELSE LET t == RStrip(LStrip(v.s))
             signed == Len(t) > 0 /\ t[1] \in {"+", "-"}
             body == IF signed THEN Tail(t) ELSE t
             sgn == IF signed /\ t[1] = "-" THEN -1 ELSE 1
             d == DotAt(body)
             ip == IF d = 0 THEN body ELSE SubSeq(body, 1, d - 1)
             fp == IF d = 0 THEN <<>> ELSE SubSeq(body, d + 1, Len(body))
             wellFormed == /\ Len(ip) + Len(fp) > 0
                           /\ \A i \in 1..Len(ip) : IsDigit(ip[i])
                           /\ \A i \in 1..Len(fp) : IsDigit(fp[i])
         IN  IF wellFormed
             THEN Ok(PyFloat(sgn * DigitsValue(ip \o fp, 0), Len(fp)))
             ELSE Raise("ValueError")

\* ------------------------------------------------------------------------
\* time.strptime and time.mktime
\* ------------------------------------------------------------------------
\* Seconds east of UTC of the local time zone that time.mktime applies.
\* Dataflow workers run in UTC.
timezone == 0

Lower(c) ==
    CASE c = "U" -> "u" [] c = "T" -> "t" [] c = "C" -> "c"
      [] c = "G" -> "g" [] c = "M" -> "m" [] OTHER -> c

\* The names %Z accepts, case-insensitively: utc, gmt and the local zone.
TzNames == {<<"u", "t", "c">>, <<"g", "m", "t">>}

InRange(c, lo, hi) == IsDigit(c) /\ DigitVal(c) >= lo /\ DigitVal(c) <= hi

\* How many characters of data, from position i, the regular expression of
\* directive d takes (its alternatives tried in their order), 0 when none
\* matches.
DirectiveLen(d, data, i) ==
    LET c1 == At(data, i)
        c2 == At(data, i + 1)
    IN  CASE d = "Y" ->
               IF \A j \in 0..3 : IsDigit(At(data, i + j)) THEN 4 ELSE 0
          [] d = "m" ->
               IF c1 = "1" /\ InRange(c2, 0, 2) THEN 2
               ELSE IF c1 = "0" /\ InRange(c2, 1, 9) THEN 2
               ELSE IF InRange(c1, 1, 9) THEN 1 ELSE 0
          [] d = "d" ->
               IF c1 = "3" /\ InRange(c2, 0, 1) THEN 2
               ELSE IF InRange(c1, 1, 2) /\ IsDigit(c2) THEN 2
               ELSE IF c1 = "0" /\ InRange(c2, 1, 9) THEN 2
               ELSE IF InRange(c1, 1, 9) THEN 1
               ELSE IF c1 = " " /\ InRange(c2, 1, 9) THEN 2 ELSE 0
          [] d = "H" ->
               IF c1 = "2" /\ InRange(c2, 0, 3) THEN 2
               ELSE IF InRange(c1, 0, 1) /\ IsDigit(c2) THEN 2
               ELSE IF IsDigit(c1) THEN 1 ELSE 0
          [] d = "M" ->
               IF InRange(c1, 0, 5) /\ IsDigit(c2) THEN 2
               ELSE IF IsDigit(c1) THEN 1 ELSE 0
          [] d = "S" ->
               IF c1 = "6" /\ InRange(c2, 0, 1) THEN 2
               ELSE IF InRange(c1, 0, 5) /\ IsDigit(c2) THEN 2
               ELSE IF IsDigit(c1) THEN 1 ELSE 0
          [] d = "Z" ->
               IF <<Lower(At(data, i)), Lower(At(data, i + 1)),
                    Lower(At(data, i + 2))>> \in TzNames THEN 3 ELSE 0
          [] OTHER -> 0

\* The number a matched directive stands for (a leading blank of %d is
\* dropped).
DirectiveVal(data, i, n) ==
    DigitsValue(SelectSeq(SubSeq(data, i, i + n - 1), IsDigit), 0)

\* First position at or after i of data that holds no white space.
RECURSIVE SkipSpace(_, _)
SkipSpace(data, i) ==
    IF IsSpace(At(data, i)) THEN SkipSpace(data, i + 1) ELSE i

\* The fields strptime starts from.
TmDefault == [Y |-> 1900, m |-> 1, d |-> 1, H |-> 0, M |-> 0, S |-> 0]

\* Match format fmt from position fi against data from position di; tm
\* holds the fields found so far.  The result is the filled tm with the
\* end position of the match, or [ok |-> FALSE].
RECURSIVE MatchFormat(_, _, _, _, _)

\* The directive d at position fi of fmt, which takes n characters of data.
MatchDirective(fmt, fi, data, di, tm, d, n) ==
    IF n = 0 THEN [ok |-> FALSE]
    ELSE MatchFormat(fmt, fi + 2, data, di + n,
                     IF d = "Z" THEN tm
                     ELSE [tm EXCEPT ![d] = DirectiveVal(data, di, n)])

MatchFormat(fmt, fi, data, di, tm) ==
    IF fi > Len(fmt) THEN [ok |-> TRUE, tm |-> tm, end |-> di]
    ELSE IF fmt[fi] = "%" THEN
        MatchDirective(fmt, fi, data, di, tm, At(fmt, fi + 1),
                       DirectiveLen(At(fmt, fi + 1), data, di))
    ELSE IF IsSpace(fmt[fi]) THEN
        IF IsSpace(At(data, di))
        THEN MatchFormat(fmt, fi + 1, data, SkipSpace(data, di), tm)
        ELSE [ok |-> FALSE]
    ELSE IF At(data, di) = fmt[fi]
        THEN MatchFormat(fmt, fi + 1, data, di + 1, tm)
        ELSE [ok |-> FALSE]

IsLeap(y) == (y % 4 = 0 /\ y % 100 # 0) \/ y % 400 = 0

DaysInMonth(y, m) ==
    IF m = 2 THEN (IF IsLeap(y) THEN 29 ELSE 28)
    ELSE IF m \in {4, 6, 9, 11} THEN 30 ELSE 31

\* time.strptime(v, format): TypeError unless both arguments are text,
\* ValueError when the format does not match all of v or the date does not
\* exist, the time tuple otherwise.
MatchedTime(v, r) ==
    IF ~r.ok THEN Raise("ValueError")
    ELSE IF r.end # Len(v.s) + 1 THEN Raise("ValueError")
    ELSE IF r.tm.Y < 1 \/ r.tm.d > DaysInMonth(r.tm.Y, r.tm.m)
         THEN Raise("ValueError")
    ELSE Ok(r.tm)

strptime(v, format) ==
    IF v.tag # "str" \/ format.tag # "str" THEN Raise("TypeError")
    ELSE MatchedTime(v, MatchFormat(format.s, 1, v.s, 1, TmDefault))

\* Days from 1970-01-01 to the civil date y-m-d.
DaysFromCivil(y, m, d) ==
    LET yy == IF m <= 2 THEN y - 1 ELSE y
        era == yy \div 400
        yoe == yy - era * 400
        mp == (m + 9) % 12
        doy == (153 * mp + 2) \div 5 + d - 1
        doe == yoe * 365 + yoe \div 4 - yoe \div 100 + doy
    IN  era * 146097 + doe - 719468

\* time.mktime(tm): the epoch seconds, a float, of local time tm.
mktime(tm) ==
    PyFloat(DaysFromCivil(tm.Y, tm.m, tm.d) * 86400 + tm.H * 3600
            + tm.M * 60 + tm.S - timezone, 0)

\* ------------------------------------------------------------------------
\* Dicts: sequences of <<key, value>> pairs in insertion order
\* ------------------------------------------------------------------------
Keys(d) == [i \in 1..Len(d) |-> d[i][1]]

HasKey(d, k) == \E i \in 1..Len(d) : d[i][1] = k

Get(d, k) == d[CHOOSE i \in 1..Len(d) : d[i][1] = k][2]

\* d[k] = v: replaces the value of an existing key in place, appends a new
\* key at the end.
SetItem(d, k, v) ==
    IF HasKey(d, k)
    THEN [i \in 1..Len(d) |-> IF d[i][1] = k THEN <<k, v>> ELSE d[i]]
    ELSE Append(d, <<k, v>>)

\* ------------------------------------------------------------------------
\* PrepareFieldTypes
\* ------------------------------------------------------------------------
FmtPrimary == PyStr(<<"%", "Y", "-", "%", "m", "-", "%", "d", " ", "%", "H", ":", "%", "M", ":", "%", "S", " ", "%", "Z">>)

FmtDateTime == PyStr(<<"%", "Y", "-", "%", "m", "-", "%", "d", " ", "%", "H", ":", "%", "M", ":", "%", "S">>)

FmtDate == PyStr(<<"%", "Y", "-", "%", "m", "-", "%", "d">>)

EpochDate == PyStr(<<"1", "9", "7", "0", "-", "0", "1", "-", "0", "1">>)

\* PrepareFieldTypes(): the attributes __init__ sets.
PrepareFieldTypes_init ==
    [_encoding |-> "utf-8",
     _time_format |-> [tag |-> "list",
                       items |-> <<FmtPrimary, FmtDateTime, FmtDate>>]]

_return_default_value(ftype) ==
    CASE ftype = "INTEGER"   -> PyInt(0)
      [] ftype = "FLOAT"     -> PyInt(0)
      [] ftype = "DATATIME"  -> mktime(strptime(EpochDate, FmtDate).v)
      [] ftype = "TIMESTAMP" -> PyInt(0)
      [] OTHER               -> PyStr(<<>>)

\* int(x) of a float x.
IntOfFloat(x) ==
    LET RECURSIVE Pow10(_)
        Pow10(k) == IF k = 0 THEN 1 ELSE 10 * Pow10(k - 1)
        q == (IF x.m >= 0 THEN x.m ELSE -x.m) \div Pow10(x.e)
    IN  PyInt(IF x.m >= 0 THEN q ELSE -q)

\* TimestampLoop with the fallback formats never tried: a ValueError of
\* the primary format ends the loop.
PrimaryOnlyTry(v, r) ==
    IF r.exc = "none" THEN Ok(IntOfFloat(mktime(r.v)))
    ELSE IF r.exc = "ValueError" THEN Ok(v)
    ELSE r

TimestampLoop_PrimaryOnly(self, v, i) ==
    PrimaryOnlyTry(v, strptime(v, self._time_format.items[1]))

\* The TIMESTAMP loop "for fmt in self._time_format" from its i-th format
\* on: the first format that parses v gives int(mktime(...)) and ends the
\* loop, a ValueError moves on to the next format, a TypeError leaves the
\* loop as an exception.  v is left as it is when no format parses.
RECURSIVE TimestampLoop(_, _, _)

\* The try statement of the loop, r being what strptime gave for format i.
TimestampTry(self, v, i, r) ==
    IF r.exc = "none" THEN Ok(IntOfFloat(mktime(r.v)))
    ELSE IF r.exc = "ValueError" THEN TimestampLoop(self, v, i + 1)
    ELSE r

TimestampLoop(self, v, i) ==
    IF i > Len(self._time_format.items) THEN Ok(v)
    ELSE TimestampTry(self, v, i, strptime(v, self._time_format.items[i]))

\* The DATETIME branch, r being what strptime gave.
DatetimeValue(ftype, r) ==
    IF r.exc \in {"ValueError", "TypeError"}
    THEN Ok(_return_default_value(ftype))
    ELSE Ok(mktime(r.v))

\* The TIMESTAMP branch after its loop, r being what the loop left.
TimestampValue(ftype, r) ==
    IF r.exc # "none" THEN r
    ELSE IF r.v.tag # "int" THEN Ok(_return_default_value(ftype))
    ELSE r

\* The body of the try statement of process for one field: the new value
\* of v, or the exception that leaves the try block.
Convert(self, ftype, v) ==
    IF ~Truthy(v) THEN Ok(_return_default_value(ftype))
    ELSE CASE ftype = "STRING" ->
                \* str has no decode method
                IF v.tag = "str" THEN Raise("AttributeError") ELSE Ok(v)
           [] ftype = "INTEGER" -> py_int(v)
           [] ftype = "FLOAT" -> py_float(v)
           [] ftype = "DATETIME" ->
                DatetimeValue(ftype, strptime(v, self._time_format))
           [] ftype = "TIMESTAMP" ->
                TimestampValue(ftype, TimestampLoop(self, v, 1))
           [] OTHER -> Ok(_return_default_value(ftype))

\* The except clause of process, r being what the try body gave.
Caught(ftype, r) ==
    IF r.exc \in {"TypeError", "ValueError"}
    THEN Ok(_return_default_value(ftype))
    ELSE r

\* One iteration of "for k, v in element.items()": the value stored in
\* element[k], or the exception that leaves process.
ProcessField(self, fields, k, v) ==
    IF ~HasKey(fields, k) THEN Raise("KeyError")
    ELSE Caught(Get(fields, k), Convert(self, Get(fields, k), v))

\* The loop of process from the i-th item on; items is the dict as the
\* iterations so far left it.
RECURSIVE ProcessItems(_, _, _, _)

\* The end of the i-th iteration, r being what ProcessField gave: the
\* exception leaves the loop, the value is stored by element[k] = v.
StoreItem(self, fields, items, i, r) ==
    IF r.exc # "none" THEN [exc |-> r.exc, element |-> items]
    ELSE ProcessItems(self, fields,
                      [items EXCEPT ![i] = <<items[i][1], r.v>>], i + 1)

ProcessItems(self, fields, items, i) ==
    IF i > Len(items) THEN [exc |-> "none", element |-> items]
    ELSE StoreItem(self, fields, items, i,
                   ProcessField(self, fields, items[i][1], items[i][2]))

\* An element is a dict [tag |-> "dict", items |-> ...] or a value without
\* __len__ (an int).
HasLen(element) == element.tag \in {"dict", "str"}

PyLen(element) == IF element.tag = "dict" THEN Len(element.items) ELSE Len(element.s)

\* How process ends after its loop, r being what the loop left: return
\* [element], or the exception of the loop.
LoopEnd(r) ==
    [exc |-> r.exc,
     out |-> IF r.exc = "none"
             THEN <<[tag |-> "dict", items |-> r.element]>> ELSE <<>>,
     element |-> [tag |-> "dict", items |-> r.element]]

\* process without the comparison of len(element) with len(fields).
process_NoCountCheck(self, element, fields) ==
    IF ~HasLen(element)
    THEN [exc |-> "none", out |-> <<>>, element |-> element]
    ELSE LoopEnd(ProcessItems(self, fields, element.items, 1))

\* PrepareFieldTypes.process(element, fields): the list it returns (out),
\* the exception it raises (exc) and the element as the call leaves it.
process(self, element, fields) ==
    IF ~HasLen(element)
    THEN [exc |-> "none", out |-> <<>>, element |-> element]
    ELSE IF PyLen(element) # Len(fields)
    THEN [exc |-> "none", out |-> <<>>, element |-> element]
    ELSE LoopEnd(ProcessItems(self, fields, element.items, 1))

\* return [element]
ReturnList(e) == [exc |-> "none", out |-> <<e>>, element |-> e]

\* InjectTimestamp.process(element) at wall-clock time t.
InjectTimestamp_process(element, t) ==
    ReturnList([tag |-> "dict",
                items |-> SetItem(element.items, "_RAWTIMESTAMP", PyInt(t))])

\* ------------------------------------------------------------------------
\* FileCoder
\* ------------------------------------------------------------------------
\* FileCoder(columns): the attributes __init__ sets.
FileCoder_init(columns) ==
    [_columns |-> columns, _num_columns |-> Len(columns), _delimiter |-> ","]

\* str.strip('\r\n'): drops every leading and trailing CR and LF.
RECURSIVE StripCRLF(_)
StripCRLF(s) ==
    IF Len(s) > 0 /\ s[1] \in {"\r", "\n"} THEN StripCRLF(Tail(s))
    ELSE IF Len(s) > 0 /\ s[Len(s)] \in {"\r", "\n"}
         THEN StripCRLF(SubSeq(s, 1, Len(s) - 1))
    ELSE s

\* The text the csv writer writes for one value: None is written empty.
CsvText(v) == IF v.tag = "None" THEN <<>> ELSE v.s

\* QUOTE_MINIMAL: a field is quoted when it holds the delimiter, the quote
\* character or a character of the line terminator.
NeedsQuote(s, delimiter) ==
    \E i \in 1..Len(s) : s[i] \in {delimiter, "\"", "\r", "\n"}

\* s with every quote character doubled.
RECURSIVE DoubleQuotes(_)
DoubleQuotes(s) ==
    IF Len(s) = 0 THEN <<>>
    ELSE (IF s[1] = "\"" THEN <<"\"", "\"">> ELSE <<s[1]>>)
            \o DoubleQuotes(Tail(s))

CsvField(s, delimiter) ==
    IF NeedsQuote(s, delimiter) THEN <<"\"">> \o DoubleQuotes(s) \o <<"\"">>
    ELSE s

\* The fields of a row joined by the delimiter.
RECURSIVE CsvJoin(_, _)
CsvJoin(row, delimiter) ==
    IF Len(row) = 0 THEN <<>>
    ELSE IF Len(row) = 1 THEN CsvField(row[1], delimiter)
    ELSE CsvField(row[1], delimiter) \o <<delimiter>>
            \o CsvJoin(Tail(row), delimiter)

\* csv.writer.writerow(row): a row of one empty field is written as "".
CsvWriteRow(row, delimiter) ==
    (IF Len(row) = 1 /\ Len(row[1]) = 0 THEN <<"\"", "\"">>
     ELSE CsvJoin(row, delimiter)) \o <<"\r", "\n">>

\* FileCoder.encode(value): DictWriter.writerow raises ValueError for a key
\* that is no column and writes a missing column empty.
FileCoder_encode(self, value) ==
    IF \E i \in 1..Len(value.items) :
           \A j \in 1..Len(self._columns) : self._columns[j] # value.items[i][1]
    THEN Raise("ValueError")
    ELSE LET row == [j \in 1..Len(self._columns) |->
                        IF HasKey(value.items, self._columns[j])
                        THEN CsvText(Get(value.items, self._columns[j]))
                        ELSE <<>>]
         IN  Ok(PyStr(StripCRLF(CsvWriteRow(row, self._delimiter))))

\* FileCoder.decode(value): builds a csv.DictWriter (not a DictReader) on
\* the line and calls next() on it; a DictWriter is no iterator, so next()
\* raises TypeError whatever the line is.
FileCoder_decode(self, value) == Raise("TypeError")

\* _get_bq_schema with the timestamp entry put first instead of last.
_get_bq_schema_TimestampFirst(fields) ==
    <<[name |-> "_RAWTIMESTAMP", type |-> "TIMESTAMP",
       description |-> <<"Injected timestamp">>]>>
    \o [i \in 1..Len(fields) |->
          [name |-> fields[i][1], type |-> fields[i][2],
           description |-> <<"Field ", fields[i][1]>>]]

\* _get_bq_schema(fields): one TableFieldSchema per field of the schema in
\* its order, then the one of the injected timestamp.
_get_bq_schema(fields) ==
    [i \in 1..Len(fields) |->
        [name |-> fields[i][1], type |-> fields[i][2],
         description |-> <<"Field ", fields[i][1]>>]]
    \o <<[name |-> "_RAWTIMESTAMP", type |-> "TIMESTAMP",
          description |-> <<"Injected timestamp">>]>>

\* ------------------------------------------------------------------------
\* run
\* ------------------------------------------------------------------------
\* Position of the last c in s, 0 if there is none.
LastIndex(s, c) ==
    IF \E i \in 1..Len(s) : s[i] = c
    THEN CHOOSE i \in 1..Len(s) : s[i] = c /\ \A j \in (i + 1)..Len(s) : s[j] # c
    ELSE 0

\* Position of the first c in s, 0 if there is none.
FirstIndex(s, c) ==
    IF \E i \in 1..Len(s) : s[i] = c
    THEN CHOOSE i \in 1..Len(s) : s[i] = c /\ \A j \in 1..(i - 1) : s[j] # c
    ELSE 0

\* os.path.splitext(name)[0]: the name without its last extension; a dot
\* that only dots precede starts no extension.
SplitextRoot(name) ==
    LET d == LastIndex(name, ".")
    IN  IF d > 1 /\ \E j \in 1..(d - 1) : name[j] # "."
        THEN SubSeq(name, 1, d - 1) ELSE name

\* os.path.splitext(input_file)[0].split('_')[0]
TableName(input_file) ==
    LET root == SplitextRoot(input_file)
        u == FirstIndex(root, "_")
    IN  IF u = 0 THEN root ELSE SubSeq(root, 1, u - 1)

\* _fetch_table(table_name): a GoogleAuthError of datastore.Client() is
\* passed over, which leaves the name client unbound for the return
\* statement; client.get returns the entity or None, or raises
\* InvalidArgument.
_fetch_table(creds, store, table_name) ==
    IF ~creds THEN Raise("UnboundLocalError")
    ELSE IF store[table_name].kind = "InvalidArgument"
         THEN Raise("InvalidArgument")
    ELSE Ok(store[table_name])

\* What one source of the running pipeline emits for the data lines it
\* reads at wall-clock time t: ReadFromText decodes each line with the
\* coder, PrepareFieldTypes and InjectTimestamp follow; an exception of a
\* step fails the pipeline.
RECURSIVE ReadRecords(_, _, _, _)

\* The line decoded to d has gone through PrepareFieldTypes, which gave r.
Emit(src, lines, t, acc, r) ==
    IF r.exc # "none" THEN [exc |-> r.exc, out |-> acc]
    ELSE ReadRecords(src, Tail(lines), t,
                     IF Len(r.out) = 0 THEN acc
                     ELSE Append(acc, InjectTimestamp_process(r.out[1], t).out[1]))

\* The first line has been decoded to d.
Decoded(src, lines, t, acc, d) ==
    IF d.exc # "none" THEN [exc |-> d.exc, out |-> acc]
    ELSE Emit(src, lines, t, acc,
              process(PrepareFieldTypes_init, d.v, src.fields))

ReadRecords(src, lines, t, acc) ==
    IF Len(lines) = 0 THEN [exc |-> "none", out |-> acc]
    ELSE Decoded(src, lines, t, acc, FileCoder_decode(src.coder, lines[1]))

\* skip_header_lines=1
SkipHeader(lines) == IF Len(lines) = 0 THEN lines ELSE Tail(lines)

\* ------------------------------------------------------------------------
\* Inputs
\* ------------------------------------------------------------------------
\* Declared types: the five the code knows and one it does not.
FieldTypes == {"STRING", "INTEGER", "FLOAT", "DATETIME", "TIMESTAMP", "BOOLEAN"}

Names == <<"a", "b", "c", "d", "e">>

\* Raw values: empty text, None, text no parser accepts, an integer, a
\* decimal, a date, the epoch date, a date and time, and a date and time
\* with a zone name.
RawValues ==
    {PyStr(<<>>), PyNone,
     PyStr(<<"a", "b", "c">>),
     PyStr(<<"4", "2">>),
     PyStr(<<"1", ".", "5">>),
     PyStr(<<"2", "0", "2", "0", "-", "0", "1", "-", "0", "1">>),
     PyStr(<<"1", "9", "7", "0", "-", "0", "1", "-", "0", "1">>),
     PyStr(<<"2", "0", "2", "0", "-", "0", "1", "-", "0", "1", " ", "1", "0", ":", "0", "0", ":", "0", "0">>),
     PyStr(<<"2", "0", "2", "0", "-", "0", "1", "-", "0", "1", " ", "1", "0", ":", "0", "0", ":", "0", "0", " ", "U", "T", "C">>)}

\* Schemas of n fields named Names[1..n].
SchemasOfLen(n) ==
    {[i \in 1..n |-> <<Names[i], ts[i]>>] : ts \in [1..n -> FieldTypes]}

Schemas == UNION {SchemasOfLen(n) : n \in 0..MaxFields}

\* Dicts of n raw values with keys Names[1 + off .. n + off].
DictsOfLen(n, off) ==
    {[tag |-> "dict", items |-> [i \in 1..n |-> <<Names[i + off], vs[i]>>]] :
        vs \in [1..n -> RawValues]}

\* Elements handed to process: dicts keyed like a schema, dicts whose keys
\* are shifted by one name (so that the last key is in no schema of that
\* length), and a value without a length.
Elements ==
    UNION {DictsOfLen(n, off) : n \in 0..MaxFields, off \in {0, 1}}
      \cup {PyInt(7)}

\* Wall-clock readings of InjectTimestamp.
Clock == {1600000000, 1600000001}

\* Values of the records given to the coder: empty text, plain text, text
\* with the delimiter, text with the quote character, text with a line
\* break, and None.
CodecValues ==
    {PyStr(<<>>), PyStr(<<"a">>), PyStr(<<"a", ",", "b">>),
     PyStr(<<"q", "\"", "r">>), PyStr(<<"x", "\n", "y">>), PyNone}

CodecRecords ==
    UNION {{[tag |-> "dict", items |-> [i \in 1..n |-> <<Names[i], vs[i]>>]] :
               vs \in [1..n -> CodecValues]} : n \in 0..MaxFields}

\* Input files of run, the tables their names stand for, and what Datastore
\* holds for a table: an entity with the columns of the table, nothing, or
\* an argument client.get rejects.
MaxFiles == 2

File1 == <<"p", "_", "1", ".", "c", "s", "v">>

File2 == <<"p", "_", "2", ".", "c", "s", "v">>

File3 == <<"q", ".", "c", "s", "v">>

Files == {File1, File2, File3}

Tables == {TableName(f) : f \in Files}

Lookups ==
    {[kind |-> "entity", columns |-> <<<<"a", "INTEGER">>, <<"b", "STRING">>>>],
     [kind |-> "entity", columns |-> <<<<"a", "TIMESTAMP">>>>],
     [kind |-> "None"],
     [kind |-> "InvalidArgument"]}

HeaderLine == PyStr(<<"a", ",", "b">>)

DataLine == PyStr(<<"4", "2", ",", "x">>)

FileContents == {<<HeaderLine>>, <<HeaderLine, DataLine>>}

\* ------------------------------------------------------------------------
\* State
\* ------------------------------------------------------------------------
VARIABLES
    self,       \* the PrepareFieldTypes instance
    fields,     \* the schema: dict of field name -> declared type
    raw,        \* the element as it was handed to the first step
    element,    \* the element object, which process changes in place
    ret,        \* what the last call returned or raised
    pc,         \* position of the element, of the coder or of run
    coder,      \* the FileCoder instance
    line,       \* what FileCoder.encode returned or raised
    bq_schema,  \* what _get_bq_schema returned, None before the call
    input_files,  \* known_args.input_files.split(',')
    credentials,  \* whether datastore.Client() can authenticate
    datastore,    \* what client.get gives for each table name
    gcs,          \* the lines of each input file, header first
    nfile,        \* index of the file the loop of run is at
    pipeline,     \* the sources set up on the pipeline p so far
    p_state,      \* "built" until p.run(), then "DONE" or "FAILED"
    exit,         \* the exception that left run, "none" if none did
    sink,         \* the records written to BigQuery, by table
    workers       \* per worker: its element and where its process call is

elementVars == <<self, fields, raw, element, ret>>

coderVars == <<coder, line, bq_schema>>

runVars == <<input_files, credentials, datastore, gcs, nfile, pipeline,
             p_state, exit, sink>>

vars == <<elementVars, pc, coderVars, runVars, workers>>

\* The run variables of a specification that does not run run().
NoRun ==
    /\ input_files = <<>>
    /\ credentials = TRUE
    /\ datastore = <<>>
    /\ gcs = <<>>
    /\ nfile = 1
    /\ pipeline = <<>>
    /\ p_state = "built"
    /\ exit = "none"
    /\ sink = <<>>
    /\ workers = <<>>

NoCall == [exc |-> "none", out |-> <<>>]

\* ------------------------------------------------------------------------
\* One element through PrepareFieldTypes and InjectTimestamp
\* ------------------------------------------------------------------------
Init ==
    /\ self = PrepareFieldTypes_init
    /\ fields \in Schemas
    /\ raw \in Elements
    /\ element = raw
    /\ ret = NoCall
    /\ pc = "ready"
    /\ coder = PyNone
    /\ line = PyNone
    /\ bq_schema = PyNone
    /\ NoRun

\* A call on the element has ended as r says.
Called(r) ==
    /\ element' = r.element
    /\ ret' = [exc |-> r.exc, out |-> r.out]

\* ParDo(PrepareFieldTypes(), fields) on the element.
Process ==
    /\ pc = "ready"
    /\ Called(process(self, element, fields))
    /\ pc' = "processed"
    /\ UNCHANGED <<self, fields, raw>>
    /\ UNCHANGED <<coderVars, runVars, workers>>

\* ParDo(InjectTimestamp()) on each element PrepareFieldTypes emitted.
Inject ==
    /\ pc = "processed"
    /\ ret.exc = "none"
    /\ Len(ret.out) = 1
    /\ \E t \in Clock : Called(InjectTimestamp_process(ret.out[1], t))
    /\ pc' = "injected"
    /\ UNCHANGED <<self, fields, raw>>
    /\ UNCHANGED <<coderVars, runVars, workers>>

Next == Process \/ Inject

Spec == Init /\ [][Next]_vars

\* ------------------------------------------------------------------------
\* The per-source set-up of run: the coder and the BigQuery schema made
\* from the fetched fields, and one record through the coder
\* ------------------------------------------------------------------------
InitCoder ==
    /\ self = PrepareFieldTypes_init
    /\ fields \in Schemas
    /\ raw \in CodecRecords
    /\ element = raw
    /\ ret = NoCall
    /\ pc = "ready"
    /\ coder = FileCoder_init(Keys(fields))
    /\ line = PyNone
    /\ bq_schema = PyNone
    /\ NoRun

\* schema=_get_bq_schema(fields)
GetBqSchema ==
    /\ bq_schema = PyNone
    /\ bq_schema' = [tag |-> "TableSchema", fields |-> _get_bq_schema(fields)]
    /\ UNCHANGED <<self, fields, raw, element, ret, pc, coder, line, runVars,
                   workers>>

\* coder.encode(element)
Encode ==
    /\ pc = "ready"
    /\ line' = FileCoder_encode(coder, element)
    /\ pc' = "encoded"
    /\ UNCHANGED <<self, fields, raw, element, ret, coder, bq_schema, runVars,
                   workers>>

\* coder.decode(line) of a line encode returned
Decode ==
    /\ pc = "encoded"
    /\ line.exc = "none"
    /\ LET r == FileCoder_decode(coder, line.v)
       IN  ret' = IF r.exc = "none" THEN [exc |-> "none", out |-> <<r.v>>]
                  ELSE [exc |-> r.exc, out |-> <<>>]
    /\ pc' = "decoded"
    /\ UNCHANGED <<self, fields, raw, element, coder, line, bq_schema, runVars,
                   workers>>

NextCoder == GetBqSchema \/ Encode \/ Decode

SpecCoder == InitCoder /\ [][NextCoder]_vars

\* ------------------------------------------------------------------------
\* run: the loop over the input files, then p.run()
\* ------------------------------------------------------------------------
InitRun ==
    /\ self = PrepareFieldTypes_init
    /\ fields = <<>>
    /\ raw = PyNone
    /\ element = PyNone
    /\ ret = NoCall
    /\ coder = PyNone
    /\ line = PyNone
    /\ bq_schema = PyNone
    /\ pc = "preparing"
    /\ input_files \in {fs \in UNION {[1..n -> Files] : n \in 1..MaxFiles} :
                            \A i, j \in 1..Len(fs) : fs[i] = fs[j] => i = j}
    /\ credentials \in BOOLEAN
    /\ datastore \in [Tables -> Lookups]
    /\ gcs \in [Files -> FileContents]
    /\ nfile = 1
    /\ pipeline = <<>>
    /\ p_state = "built"
    /\ exit = "none"
    /\ sink = <<>>
    /\ workers = <<>>

\* The table lookup of the file the loop is at.
Fetched == _fetch_table(credentials, datastore, TableName(input_files[nfile]))

\* One iteration of the loop whose lookup gives an entity: the source is
\* added to the pipeline with its coder, its fields and its BigQuery schema.
PrepareFile ==
    /\ pc = "preparing"
    /\ nfile <= Len(input_files)
    /\ Fetched.exc = "none"
    /\ Fetched.v.kind = "entity"
    /\ LET input_file == input_files[nfile]
           flds == Fetched.v.columns
       IN  pipeline' = Append(pipeline,
               [file |-> input_file,
                table |-> TableName(input_file),
                coder |-> FileCoder_init(Keys(flds)),
                fields |-> flds,
                schema |-> _get_bq_schema(flds)])
    /\ nfile' = nfile + 1
    /\ UNCHANGED <<elementVars, pc, coderVars, input_files, credentials,
                   datastore, gcs, p_state, exit, sink, workers>>

\* AbortRun that gives up the file only and goes on with the next one.
AbortRun_SkipFile ==
    /\ pc = "preparing"
    /\ nfile <= Len(input_files)
    /\ \/ Fetched.exc = "InvalidArgument"
       \/ Fetched.exc = "none" /\ Fetched.v.kind = "None"
    /\ nfile' = nfile + 1
    /\ UNCHANGED <<elementVars, pc, coderVars, input_files, credentials,
                   datastore, gcs, pipeline, p_state, exit, sink, workers>>

\* The iteration whose lookup raises InvalidArgument or finds no table:
\* raise SystemExit.
AbortRun ==
    /\ pc = "preparing"
    /\ nfile <= Len(input_files)
    /\ \/ Fetched.exc = "InvalidArgument"
       \/ Fetched.exc = "none" /\ Fetched.v.kind = "None"
    /\ exit' = "SystemExit"
    /\ pc' = "exited"
    /\ UNCHANGED <<elementVars, coderVars, input_files, credentials,
                   datastore, gcs, nfile, pipeline, p_state, sink, workers>>

\* The iteration whose lookup raises anything else: the exception is not
\* caught and leaves run.
CrashRun ==
    /\ pc = "preparing"
    /\ nfile <= Len(input_files)
    /\ Fetched.exc \notin {"none", "InvalidArgument"}
    /\ exit' = Fetched.exc
    /\ pc' = "exited"
    /\ UNCHANGED <<elementVars, coderVars, input_files, credentials,
                   datastore, gcs, nfile, pipeline, p_state, sink, workers>>

\* The pipeline has ended with res[i] for its i-th source: it is DONE and
\* the sink has the records when no source raised, FAILED otherwise.
Finished(res) ==
    IF \A i \in 1..Len(res) : res[i].exc = "none"
    THEN /\ p_state' = "DONE"
         /\ sink' = [i \in 1..Len(pipeline) |->
                        [table |-> pipeline[i].table,
                         schema |-> pipeline[i].schema,
                         rows |-> res[i].out]]
         /\ exit' = "none"
         /\ pc' = "done"
    ELSE /\ p_state' = "FAILED"
         /\ sink' = sink
         /\ exit' = res[CHOOSE i \in 1..Len(res) :
                           /\ res[i].exc # "none"
                           /\ \A j \in 1..(i - 1) : res[j].exc = "none"].exc
         /\ pc' = "exited"

\* p.run().wait_until_finish() after the loop: every source reads its file
\* past the header; the records go to the sink when no step raised.
RunPipeline ==
    /\ pc = "preparing"
    /\ nfile > Len(input_files)
    /\ \E t \in Clock :
         Finished([i \in 1..Len(pipeline) |->
                      ReadRecords(pipeline[i],
                                  SkipHeader(gcs[pipeline[i].file]), t, <<>>)])
    /\ UNCHANGED <<elementVars, coderVars, input_files, credentials,
                   datastore, gcs, nfile, pipeline, workers>>

NextRun == PrepareFile \/ AbortRun \/ CrashRun \/ RunPipeline

SpecRun == InitRun /\ [][NextRun]_vars

\* ------------------------------------------------------------------------
\* Several workers, each running PrepareFieldTypes.process and then
\* InjectTimestamp.process on its own element of one source.  The workers
\* share the schema (fields) and the PrepareFieldTypes instance (self); a
\* step is one check, one iteration of the loop over the items, or one
\* return.
\* ------------------------------------------------------------------------
NumWorkers == 2

WorkerSchemas ==
    {<<<<"a", t1>>, <<"b", t2>>>> : t1, t2 \in {"INTEGER", "STRING", "TIMESTAMP"}}

WorkerValues == {PyStr(<<"4", "2">>), PyStr(<<>>)}

WorkerElements ==
    {[tag |-> "dict", items |-> <<<<"a", v1>>, <<"b", v2>>>>] :
        v1, v2 \in WorkerValues}
      \cup {[tag |-> "dict", items |-> <<<<"a", PyStr(<<"4", "2">>)>>>>]}

InitWorkers ==
    /\ self = PrepareFieldTypes_init
    /\ fields \in WorkerSchemas
    /\ raw = PyNone
    /\ element = PyNone
    /\ ret = NoCall
    /\ pc = "workers"
    /\ coder = PyNone
    /\ line = PyNone
    /\ bq_schema = PyNone
    /\ input_files = <<>>
    /\ credentials = TRUE
    /\ datastore = <<>>
    /\ gcs = <<>>
    /\ nfile = 1
    /\ pipeline = <<>>
    /\ p_state = "built"
    /\ exit = "none"
    /\ sink = <<>>
    /\ workers \in [1..NumWorkers ->
                      {[raw |-> e, element |-> e, at |-> "start", i |-> 1,
                        ret |-> NoCall] : e \in WorkerElements}]

notWorkers == <<raw, element, ret, pc, coderVars, runVars>>

\* The two checks at the head of process.
WStart(w) ==
    /\ workers[w].at = "start"
    /\ LET e == workers[w].element
       IN  IF ~HasLen(e) \/ PyLen(e) # Len(fields)
           THEN workers' = [workers EXCEPT ![w].at = "skipped"]
           ELSE workers' = [workers EXCEPT ![w].at = "loop"]
    /\ UNCHANGED <<self, fields, notWorkers>>

\* The end of an iteration of worker w on item, r being what ProcessField
\* gave, with every worker storing into the element of worker 1.
WStore_SharedElement(w, item, r) ==
    IF r.exc # "none"
    THEN workers' = [workers EXCEPT
                        ![w].at = "raised",
                        ![w].ret = [exc |-> r.exc, out |-> <<>>]]
    ELSE workers' = [[workers EXCEPT ![w].i = @ + 1] EXCEPT
                        ![1].element.items = SetItem(@, item[1], r.v)]

\* The end of an iteration of worker w on item, r being what ProcessField
\* gave: the exception leaves process, the value is stored by
\* element[k] = v.
WStore(w, item, r) ==
    IF r.exc # "none"
    THEN workers' = [workers EXCEPT
                        ![w].at = "raised",
                        ![w].ret = [exc |-> r.exc, out |-> <<>>]]
    ELSE workers' = [workers EXCEPT
                        ![w].element.items = SetItem(@, item[1], r.v),
                        ![w].i = @ + 1]

\* The item worker w is at.
WItem(w) == workers[w].element.items[workers[w].i]

\* One iteration of "for k, v in element.items()".
WField(w) ==
    /\ workers[w].at = "loop"
    /\ workers[w].i <= Len(workers[w].element.items)
    /\ WStore(w, WItem(w), ProcessField(self, fields, WItem(w)[1], WItem(w)[2]))
    /\ UNCHANGED <<self, fields, notWorkers>>

\* return [element]
WReturn(w) ==
    /\ workers[w].at = "loop"
    /\ workers[w].i > Len(workers[w].element.items)
    /\ workers' = [workers EXCEPT
                      ![w].at = "returned",
                      ![w].ret = [exc |-> "none", out |-> <<workers[w].element>>]]
    /\ UNCHANGED <<self, fields, notWorkers>>

\* InjectTimestamp.process on the element process returned.
WInject(w) ==
    /\ workers[w].at = "returned"
    /\ \E t \in Clock :
         workers' = [workers EXCEPT
                        ![w].at = "done",
                        ![w].element =
                            InjectTimestamp_process(workers[w].element, t).element,
                        ![w].ret =
                            [exc |-> "none",
                             out |-> InjectTimestamp_process(workers[w].element, t).out]]
    /\ UNCHANGED <<self, fields, notWorkers>>

NextWorkers ==
    \E w \in 1..NumWorkers : WStart(w) \/ WField(w) \/ WReturn(w) \/ WInject(w)

SpecWorkers == InitWorkers /\ [][NextWorkers]_vars

\* ------------------------------------------------------------------------
\* Properties of PrepareFieldTypes.process
\* ------------------------------------------------------------------------
\* The default the type table of the specification gives each type.
TabulatedDefault(ftype) ==
    CASE ftype = "STRING"    -> PyStr(<<>>)
      [] ftype = "INTEGER"   -> PyInt(0)
      [] ftype = "FLOAT"     -> PyInt(0)
      [] ftype = "DATETIME"  -> mktime(strptime(EpochDate, FmtDate).v)
      [] ftype = "TIMESTAMP" -> PyInt(0)
      [] OTHER               -> PyStr(<<>>)

TimeFormats == <<FmtPrimary, FmtDateTime, FmtDate>>

Parses(v, i) == strptime(v, TimeFormats[i]).exc = "none"

SomeFormatParses(v) == \E i \in 1..3 : Parses(v, i)

\* Epoch seconds (a float) v has under the first format, in list order,
\* that parses it.
FirstFormatEpoch(v) ==
    LET i == CHOOSE j \in 1..3 : Parses(v, j) /\ \A h \in 1..(j - 1) : ~Parses(v, h)
    IN  mktime(strptime(v, TimeFormats[i]).v)

\* v is non-empty and the parser of ftype does not accept it.
Rejects(ftype, v) ==
    /\ Truthy(v)
    /\ CASE ftype = "STRING"    -> FALSE
         [] ftype = "INTEGER"   -> py_int(v).exc # "none"
         [] ftype = "FLOAT"     -> py_float(v).exc # "none"
         [] ftype = "DATETIME"  -> ~SomeFormatParses(v)
         [] ftype = "TIMESTAMP" -> ~SomeFormatParses(v)
         [] OTHER               -> TRUE

\* The element handed to process is a dict with exactly the keys of the
\* schema.
Keyed ==
    /\ raw.tag = "dict"
    /\ Len(raw.items) = Len(fields)
    /\ \A i \in 1..Len(raw.items) : HasKey(fields, raw.items[i][1])

\* process has run and returned the element.
Returned == pc # "ready" /\ Keyed /\ ret.exc = "none" /\ Len(ret.out) = 1

TypeOf(i) == Get(fields, raw.items[i][1])

RawAt(i) == raw.items[i][2]

ValueAt(i) == element.items[i][2]

CountMismatch == raw.tag = "dict" /\ Len(raw.items) # Len(fields)

\* C1: when the element's field count differs from the schema's, process
\* returns the empty list, raises nothing and leaves the element alone, and
\* nothing of that element goes on to the next step.
C1_SkipOnCountMismatch ==
    (pc # "ready" /\ CountMismatch) =>
        /\ ret.exc = "none"
        /\ ret.out = <<>>
        /\ element = raw
        /\ pc = "processed"

C1_Witness ==
    /\ pc = "processed"
    /\ CountMismatch
    /\ Len(raw.items) = 1
    /\ Len(fields) = 2
    /\ ret.out = <<>>

\* C2: every empty or falsy raw value is replaced by the tabulated default
\* of the field's declared type.
C2_EmptyGivesTabulatedDefault ==
    Returned =>
        \A i \in 1..Len(raw.items) :
            ~Truthy(RawAt(i)) => ValueAt(i) = TabulatedDefault(TypeOf(i))

\* C3: a non-empty value the parser of the declared type rejects is replaced
\* by the tabulated default of that type, and a record all of whose values
\* are rejected is still returned.
C3_RejectedGivesTabulatedDefault ==
    (pc # "ready" /\ Keyed) =>
        /\ (\A i \in 1..Len(raw.items) : Rejects(TypeOf(i), RawAt(i)))
               => (ret.exc = "none" /\ (pc = "processed" => Len(ret.out) = 1))
        /\ Returned =>
               \A i \in 1..Len(raw.items) :
                   Rejects(TypeOf(i), RawAt(i))
                       => ValueAt(i) = TabulatedDefault(TypeOf(i))

\* C6: process ends in one of two ways: it returns the element with the key
\* set it came with, or it skips it without having changed it.
C6_WholeOrSkipped ==
    pc = "processed" =>
        \/ /\ ret.exc = "none"
           /\ ret.out = <<element>>
           /\ Keys(element.items) = Keys(raw.items)
        \/ /\ ret.exc = "none"
           /\ ret.out = <<>>
           /\ element = raw

\* C8 as stated: a non-empty TIMESTAMP value becomes the integer epoch of
\* the first format that parses it, and it becomes 0 exactly when no format
\* parses it.
C8_ZeroIffNoFormatParses ==
    Returned =>
        \A i \in 1..Len(raw.items) :
            (TypeOf(i) = "TIMESTAMP" /\ Truthy(RawAt(i))) =>
                /\ SomeFormatParses(RawAt(i))
                       => ValueAt(i) = IntOfFloat(FirstFormatEpoch(RawAt(i)))
                /\ (ValueAt(i) = PyInt(0)) <=> ~SomeFormatParses(RawAt(i))

\* C8 amended: a non-empty TIMESTAMP value becomes the integer epoch of the
\* first format that parses it (which is 0 for the epoch instant itself),
\* and 0 when no format parses it.
C8_FirstFormatOrZero ==
    Returned =>
        \A i \in 1..Len(raw.items) :
            (TypeOf(i) = "TIMESTAMP" /\ Truthy(RawAt(i))) =>
                ValueAt(i) = IF SomeFormatParses(RawAt(i))
                             THEN IntOfFloat(FirstFormatEpoch(RawAt(i)))
                             ELSE PyInt(0)

\* A returned record with a TIMESTAMP field parsed by the last format to
\* 2020-01-01 and a TIMESTAMP field no format parses.
C8_Witness ==
    /\ Returned
    /\ \E i \in 1..Len(raw.items) :
         /\ TypeOf(i) = "TIMESTAMP"
         /\ Parses(RawAt(i), 3)
         /\ ValueAt(i) = PyInt(1577836800)
    /\ \E i \in 1..Len(raw.items) :
         /\ TypeOf(i) = "TIMESTAMP"
         /\ Truthy(RawAt(i))
         /\ ~SomeFormatParses(RawAt(i))
         /\ ValueAt(i) = PyInt(0)

\* C9: a non-empty DATETIME value that one of the three formats parses
\* becomes the epoch of the first format that parses it, and the default is
\* stored only when no format parses it.
C9_DatetimeFirstFormat ==
    Returned =>
        \A i \in 1..Len(raw.items) :
            (TypeOf(i) = "DATETIME" /\ Truthy(RawAt(i))
                /\ SomeFormatParses(RawAt(i))) =>
                    ValueAt(i) = FirstFormatEpoch(RawAt(i))

\* ------------------------------------------------------------------------
\* Properties of FileCoder and _get_bq_schema
\* ------------------------------------------------------------------------
\* The record has exactly the columns of the coder (at least one), in
\* their order, and text values without line breaks.
CodecKeyed ==
    /\ Len(coder._columns) >= 1
    /\ Keys(raw.items) = coder._columns
    /\ \A i \in 1..Len(raw.items) :
         /\ raw.items[i][2].tag = "str"
         /\ \A j \in 1..Len(raw.items[i][2].s) :
              raw.items[i][2].s[j] \notin {"\r", "\n"}

\* C4: decoding the line a record was encoded to gives the record back.
C4_RoundTrip ==
    (pc = "decoded" /\ CodecKeyed) => (ret.exc = "none" /\ ret.out = <<raw>>)

\* C7: the BigQuery schema lists the fields of the schema in their order
\* as (name, type, "Field <name>") and ends with the one _RAWTIMESTAMP
\* entry, so it has one entry more than the schema.
C7_SchemaProjection ==
    bq_schema # PyNone =>
        LET out == bq_schema.fields
        IN  /\ Len(out) = Len(fields) + 1
            /\ \A i \in 1..Len(fields) :
                 out[i] = [name |-> fields[i][1], type |-> fields[i][2],
                           description |-> <<"Field ", fields[i][1]>>]
            /\ out[Len(out)] = [name |-> "_RAWTIMESTAMP", type |-> "TIMESTAMP",
                                description |-> <<"Injected timestamp">>]

C7_Witness ==
    /\ bq_schema # PyNone
    /\ Len(fields) = 2
    /\ fields[1][2] # fields[2][2]
    /\ Len(bq_schema.fields) = 3

\* ------------------------------------------------------------------------
\* Properties of run
\* ------------------------------------------------------------------------
\* The lookup of the i-th input file gives an entity.
LookupSucceeds(i) ==
    LET r == _fetch_table(credentials, datastore, TableName(input_files[i]))
    IN  r.exc = "none" /\ r.v.kind = "entity"

SomeLookupFails == \E i \in 1..Len(input_files) : ~LookupSucceeds(i)

FirstFailing ==
    CHOOSE i \in 1..Len(input_files) :
        ~LookupSucceeds(i) /\ \A j \in 1..(i - 1) : LookupSucceeds(j)

\* C5 as stated: when run has ended, every input file whose lookup succeeds
\* has been set up as a source and the pipeline has been run, whatever the
\* lookups of the other files gave.
C5_OtherSourcesStillProcessed ==
    pc \in {"exited", "done"} =>
        \A i \in 1..Len(input_files) :
            LookupSucceeds(i) =>
                /\ \E s \in 1..Len(pipeline) : pipeline[s].file = input_files[i]
                /\ p_state # "built"

\* C5 amended: a failed lookup ends the whole run: run is left by
\* SystemExit (or by the uncaught error of the lookup) at the first file
\* whose lookup fails, no later file is set up, the pipeline is never run
\* and the sink receives nothing.
C5_LookupFailureAbortsRun ==
    SomeLookupFails =>
        /\ nfile <= FirstFailing
        /\ Len(pipeline) <= FirstFailing - 1
        /\ p_state = "built"
        /\ sink = <<>>
        /\ pc # "done"
        /\ pc = "exited" =>
              /\ exit \in {"SystemExit", "UnboundLocalError"}
              /\ nfile = FirstFailing

\* run has exited at a first file without a table although the second
\* file's lookup succeeds.
C5_Witness ==
    /\ pc = "exited"
    /\ exit = "SystemExit"
    /\ Len(input_files) = 2
    /\ ~LookupSucceeds(1)
    /\ LookupSucceeds(2)
    /\ pipeline = <<>>

\* ------------------------------------------------------------------------
\* Properties of concurrent workers
\* ------------------------------------------------------------------------
\* d without its _RAWTIMESTAMP item.
WithoutTimestamp(e) ==
    [tag |-> "dict",
     items |-> SelectSeq(e.items, LAMBDA it : it[1] # "_RAWTIMESTAMP")]

\* What worker w has reached equals what process, run alone on the element
\* the worker was given, ends with.
AsAlone(w) ==
    LET alone == process(self, workers[w].raw, fields)
        me == workers[w]
    IN  CASE me.at = "skipped"  ->
               alone.exc = "none" /\ alone.out = <<>> /\ me.element = me.raw
          [] me.at = "raised"   ->
               alone.exc = me.ret.exc /\ me.element = alone.element
          [] me.at = "returned" ->
               alone.exc = "none" /\ me.ret.out = alone.out
                   /\ me.element = alone.element
          [] me.at = "done"     ->
               alone.exc = "none" /\ <<WithoutTimestamp(me.element)>> = alone.out
                   /\ HasKey(me.element.items, "_RAWTIMESTAMP")
          [] OTHER -> TRUE

\* C10: no step changes the shared schema or the normalizer's attributes,
\* a step changes the record of one worker only, and every worker ends with
\* the result process gives its element alone (the injected timestamp
\* aside), whatever the interleaving.
C10_RecordLocal ==
    /\ [][/\ fields' = fields
          /\ self' = self
          /\ \E w \in 1..NumWorkers :
               \A u \in 1..NumWorkers : u # w => workers'[u] = workers[u]]_vars
    /\ [](\A w \in 1..NumWorkers : AsAlone(w))

\* Worker 1 is done while worker 2, given another element, is between two
\* iterations of its loop.
C10_Witness ==
    /\ workers[1].at = "done"
    /\ workers[2].at = "loop"
    /\ workers[2].i = 2
    /\ workers[2].element # workers[2].raw
    /\ workers[1].raw # workers[2].raw

====
